---- MODULE Spec2Model ----
(***************************************************************************)
(* The coupon model of ecommerce/static/js/models/coupon_model.js: a       *)
(* Backbone relational model with declarative validation, a course lookup  *)
(* triggered by course_id changes, and a save that shapes the API payload. *)
(*                                                                         *)
(* JavaScript values are records [t, s, n]: t is the type tag, s the text  *)
(* of a string and n the value of a number in tenths (so 2.5 is 25).  A    *)
(* text is a sequence of tokens: every digit and punctuation character is  *)
(* a token of its own, a run of other characters is one opaque word.       *)
(***************************************************************************)
EXTENDS Integers, Sequences, FiniteSets, TLC

\* ------------------------------------------------------------------ values

Undef == [t |-> "undefined", s |-> <<>>, n |-> 0]
Null == [t |-> "null", s |-> <<>>, n |-> 0]
NaN == [t |-> "NaN", s |-> <<>>, n |-> 0]
Str(s) == [t |-> "string", s |-> s, n |-> 0]
Num(n) == [t |-> "number", s |-> <<>>, n |-> n]

Digits == {"0", "1", "2", "3", "4", "5", "6", "7", "8", "9"}

DigitVal(c) ==
    CASE c = "0" -> 0 [] c = "1" -> 1 [] c = "2" -> 2 [] c = "3" -> 3
      [] c = "4" -> 4 [] c = "5" -> 5 [] c = "6" -> 6 [] c = "7" -> 7
      [] c = "8" -> 8 [] c = "9" -> 9

\* The length of the longest prefix of s made of digits.
RECURSIVE DigitPrefix(_)
DigitPrefix(s) ==
    IF s = <<>> \/ Head(s) \notin Digits THEN 0 ELSE 1 + DigitPrefix(Tail(s))

\* The value of a sequence of digits, most significant first.
RECURSIVE DigitsValue(_)
DigitsValue(s) ==
    IF s = <<>> THEN 0
    ELSE DigitsValue(SubSeq(s, 1, Len(s) - 1)) * 10 + DigitVal(s[Len(s)])

\* JavaScript's truthiness, as used by `this.get('code') || ''`.
Truthy(v) ==
    CASE v.t = "string" -> v.s # <<>>
      [] v.t = "number" -> v.n # 0
      [] OTHER -> FALSE

\* underscore's _.isEmpty: null and undefined are empty, a string is empty
\* when its length is 0, and any other value is empty when it has no own
\* enumerable keys, which is the case of every number.
IsEmpty(v) ==
    CASE v.t = "string" -> Len(v.s) = 0
      [] OTHER -> TRUE

\* parseInt of a text: the leading digits, NaN when there is none.
ParseIntText(s) ==
    LET k == DigitPrefix(s)
    IN  IF k = 0 THEN NaN ELSE Num(DigitsValue(SubSeq(s, 1, k)) * 10)

\* parseFloat of a text: the leading digits, then an optional point and one
\* more digit (the model keeps one decimal place).
ParseFloatText(s) ==
    LET k == DigitPrefix(s)
        rest == SubSeq(s, k + 1, Len(s))
        frac == IF Len(rest) >= 2 /\ rest[1] = "." /\ rest[2] \in Digits
                THEN DigitVal(rest[2]) ELSE 0
    IN  IF k = 0 THEN NaN ELSE Num(DigitsValue(SubSeq(s, 1, k)) * 10 + frac)

\* parseInt(v): v is converted to a string first; a number loses its fraction.
ParseInt(v) ==
    CASE v.t = "string" -> ParseIntText(v.s)
      [] v.t = "number" -> Num((v.n \div 10) * 10)
      [] OTHER -> NaN

ParseFloat(v) ==
    CASE v.t = "string" -> ParseFloatText(v.s)
      [] v.t = "number" -> v
      [] OTHER -> NaN

\* ------------------------------------------------------------------ dates

\* The positions of the "/" tokens of a text.
Slashes(s) == {i \in 1..Len(s) : s[i] = "/"}

AllDigits(s) == s # <<>> /\ \A i \in 1..Len(s) : s[i] \in Digits

IsLeap(y) == (y % 4 = 0 /\ y % 100 # 0) \/ y % 400 = 0

DaysInMonth(m, y) ==
    CASE m \in {4, 6, 9, 11} -> 30
      [] m = 2 -> IF IsLeap(y) THEN 29 ELSE 28
      [] OTHER -> 31

\* moment(val, 'MM/DD/YYYY'): the record [valid, day] of the parsed date,
\* day ordering the valid dates. Anything that is not a string, or does not
\* hold a month, a day and a year in range, gives an invalid moment.
Moment(v) ==
    LET s == v.s
        sl == Slashes(s)
        a == CHOOSE i \in sl : \A j \in sl : i <= j
        b == CHOOSE i \in sl : \A j \in sl : j <= i
        mm == SubSeq(s, 1, a - 1)
        dd == SubSeq(s, a + 1, b - 1)
        yy == SubSeq(s, b + 1, Len(s))
        m == DigitsValue(mm)
        d == DigitsValue(dd)
        y == DigitsValue(yy)
        Invalid == [valid |-> FALSE, day |-> 0]
    IN  IF v.t # "string" \/ Cardinality(sl) # 2 THEN Invalid
        ELSE IF ~(AllDigits(mm) /\ AllDigits(dd) /\ AllDigits(yy)) THEN Invalid
        ELSE IF Len(mm) > 2 \/ Len(dd) > 2 \/ Len(yy) > 4 THEN Invalid
        ELSE IF m < 1 \/ m > 12 \/ d < 1 \/ d > DaysInMonth(m, y) THEN Invalid
        ELSE [valid |-> TRUE, day |-> y * 10000 + m * 100 + d]

\* moment#isBefore and moment#isAfter: false when either moment is invalid.
IsBefore(x, y) == x.valid /\ y.valid /\ x.day < y.day
IsAfter(x, y) == x.valid /\ y.valid /\ x.day > y.day

\* ------------------------------------------------------------- the course

\* Texts the model uses.
SingleUse == Str(<<"Single use">>)
MultiUse == Str(<<"Multi-use">>)
Enrollment == Str(<<"enrollment">>)
Discount == Str(<<"discount">>)
Percentage == Str(<<"Percentage">>)
Absolute == Str(<<"Absolute">>)
Honor == Str(<<"honor">>)
Verified == Str(<<"verified">>)
Professional == Str(<<"professional">>)

\* Course ids: two that match the courseId pattern and one that does not.
CourseA == <<"course-v", "1", ":Org", "+", "1", "0", "1", "+", "2", "0", "2", "4">>
CourseB == <<"Org", "/", "1", "0", "2", "/", "2", "0", "2", "4">>
CourseBad == <<"Org", "+", "1", "0", "1">>
Courses == {CourseA, CourseB}
NoCourse == <<>>

\* The course catalogue behind GET /courses/<id>/?include_products=true:
\* the seats of each course, each with its certificate type, its display
\* name and the ids of its stock records as the API sends them (texts).
Catalog(c) ==
    IF c = CourseA
    THEN << [certificate_type |-> Honor, label |-> "Honor",
             stockrecords |-> << <<"5">> >>],
            [certificate_type |-> Verified, label |-> "Verified",
             stockrecords |-> << <<"1", "2">>, <<"3">> >>] >>
    ELSE << [certificate_type |-> Verified, label |-> "Verified",
             stockrecords |-> << <<"7">> >>],
            [certificate_type |-> Professional, label |-> "Professional",
             stockrecords |-> << <<"8">> >>] >>

\* Course#seats(): the products of the course that are seats.
seats(prods) == prods

\* Backbone.Validation.patterns.courseId, unanchored:
\* /[^/+]+(\/|\+)[^/+]+(\/|\+)[^/]+/ matches when some separator at i has a
\* non-separator before it, a later separator at j follows a non-empty run
\* of non-separators, and the token after j is not a slash.
Separators == {"/", "+"}

MatchesCourseId(s) ==
    \E i, j \in 1..Len(s) :
        /\ 1 < i /\ i + 1 < j /\ j < Len(s)
        /\ s[i] \in Separators /\ s[j] \in Separators
        /\ s[i - 1] \notin Separators
        /\ \A k \in (i + 1)..(j - 1) : s[k] \notin Separators
        /\ s[j + 1] # "/"

\* -------------------------------------------------------------- the state

\* The bounds of the model: how many times loadCourse looks a course up,
\* and how many times save is called.
MaxLoads == 3
MaxSaves == 2

AttrNames ==
    {"title", "client_username", "course_id", "code_type", "seat_type",
     "price", "benefit_type", "benefit_value", "start_date", "end_date",
     "voucher_type", "quantity", "code"}

\* The fields of the object save builds, stock_record_ids apart.
ScalarFields ==
    {"title", "client_username", "start_date", "end_date", "code",
     "voucher_type", "quantity", "price", "benefit_type", "benefit_value"}

PayloadFields == ScalarFields \cup {"stock_record_ids"}

ValidatedAttrs ==
    {"course_id", "title", "client_username", "seat_type", "price",
     "benefit_value", "start_date", "end_date"}

NoError == ""

VARIABLES
    attrs,      \* the attributes of the coupon model, by name
    course,     \* the id of the Course the `course` relation references
    seatTypes,  \* the seatTypes attribute: a list of [value, label]
    products,   \* per Course of the store, the seats its last fetch loaded
    listeners,  \* the courses of the listenTo registrations, in order
    fetching,   \* per Course, the number of fetches in flight
    resolved,   \* the courses whose fetch completed, in completion order
    fillCalls,  \* fillFromCourse calls made by the last fetch completion
    saves,      \* the number of calls of save
    sent,       \* the number of POSTs to /api/v2/coupons/
    lastSave,   \* the last call of save: the attributes it read, how it
                \* ended, and the body it built for the request
    errors      \* the last validation: the values checked and the messages

vars ==
    <<attrs, course, seatTypes, products, listeners, fetching, resolved,
      fillCalls, saves, sent, lastSave, errors>>

\* No payload was built.
NoData == <<>>

\* Before any validation: no value was checked, no message was given.
NotValidated == [ran |-> FALSE, attrs |-> <<>>, msg |-> <<>>]

\* ------------------------------------------------------------- validation

isEnrollmentCode(a) == a["code_type"] = Enrollment

isDiscountCode(a) == a["code_type"] = Discount

\* Backbone.Validation's hasValue, which decides `required`.
HasValue(v) ==
    CASE v.t = "string" -> \E i \in 1..Len(v.s) : v.s[i] # " "
      [] v.t = "number" -> TRUE
      [] OTHER -> FALSE

Required(v) == IF HasValue(v) THEN NoError ELSE "required"

\* validation.course_id: a pattern rule on an attribute that is not
\* required is skipped while the attribute has no value.
ValidateCourseId(v) ==
    IF ~HasValue(v) \/ MatchesCourseId(v.s)
    THEN NoError ELSE "The course ID is invalid."

\* A start_date rule that lets a start date equal to the end date through.
ValidateStartDateLoose(val, a) ==
    LET endDate == Moment(a["end_date"])
        isAfter == IsAfter(Moment(val), endDate)
    IN  IF IsEmpty(val) THEN "Start date is required"
        ELSE IF ~Moment(val).valid THEN "Start date is invalid"
        ELSE IF isAfter THEN "Must occur before end date"
        ELSE NoError

\* validation.start_date. A moment object is truthy whatever it holds, so
\* `endDate &&` lets every end date through to the comparison.
MomentTruthy(m) == TRUE

ValidateStartDate(val, a) ==
    LET endDate == Moment(a["end_date"])
        isBefore == IsBefore(Moment(val), endDate)
    IN  IF IsEmpty(val) THEN "Start date is required"
        ELSE IF ~Moment(val).valid THEN "Start date is invalid"
        ELSE IF MomentTruthy(endDate) /\ ~isBefore
             THEN "Must occur before end date"
        ELSE NoError

\* validation.end_date.
ValidateEndDate(val, a) ==
    LET startDate == Moment(a["start_date"])
        isAfter == IsAfter(Moment(val), startDate)
    IN  IF IsEmpty(val) THEN "End date is required"
        ELSE IF ~Moment(val).valid THEN "End date is invalid"
        ELSE IF MomentTruthy(startDate) /\ ~isAfter
             THEN "Must occur after start date"
        ELSE NoError

\* The validation block: the error of each validated attribute.
validation(a) ==
    [k \in ValidatedAttrs |->
        CASE k = "course_id" -> ValidateCourseId(a[k])
          [] k \in {"title", "client_username", "seat_type"} -> Required(a[k])
          [] k = "price" ->
                IF isEnrollmentCode(a) THEN Required(a[k]) ELSE NoError
          [] k = "benefit_value" ->
                IF isDiscountCode(a) THEN Required(a[k]) ELSE NoError
          [] k = "start_date" -> ValidateStartDate(a[k], a)
          [] k = "end_date" -> ValidateEndDate(a[k], a)]

\* isValid(attr) of the validation mixin.
isValid(a, k) == validation(a)[k] = NoError

ModelValid(a) == \A k \in ValidatedAttrs : isValid(a, k)

\* The model is constructed with the attributes `given`; initialize then
\* binds the two change handlers and sets quantity to 1.
Constructed(given) ==
    /\ attrs = [k \in AttrNames |->
                  IF k = "quantity" THEN Num(10)
                  ELSE IF k \in DOMAIN given THEN given[k] ELSE Undef]
    /\ course = NoCourse
    /\ seatTypes = <<>>
    /\ products = [c \in Courses |-> <<>>]
    /\ listeners = <<>>
    /\ fetching = [c \in Courses |-> 0]
    /\ resolved = <<>>
    /\ fillCalls = 0
    /\ saves = 0
    /\ sent = 0
    /\ lastSave = [outcome |-> "none", course |-> NoCourse, attrs |-> <<>>,
                   data |-> NoData]
    /\ errors = NotValidated

\* new Coupon(): no attribute is given.
Init == Constructed(<<>>)

\* ---------------------------------------------------------- the handlers

\* A changeVoucherType that resets nothing.
changeVoucherTypeNoReset(a, value) == a

\* changeVoucherType: 'Single use' resets quantity to 1.
changeVoucherType(a, value) ==
    IF value = SingleUse THEN [a EXCEPT !["quantity"] = Num(10)] ELSE a

\* A loadCourse that keeps the Course it already references.
RelatedCourseKeep(cur, value) == IF cur = NoCourse THEN value ELSE cur

\* loadCourse's this.set('course', Course.findOrCreate({id: value})): the
\* relation references the Course of the store that has the id `value`.
RelatedCourse(cur, value) == value

\* set(k, v): the attribute changes, then its change handler runs.
\* change:voucher_type runs changeVoucherType; change:course_id runs
\* loadCourse, which, when course_id is valid, points `course` at the
\* Course with that id, subscribes to its change event and fetches it.
\* course_id is only ever given a text that has a value.
SetAttr(k, v) ==
    /\ attrs[k] # v
    /\ LET a1 == [attrs EXCEPT ![k] = v]
           a2 == IF k = "voucher_type" THEN changeVoucherType(a1, v) ELSE a1
           load == k = "course_id" /\ isValid(a2, "course_id")
           c == RelatedCourse(course, v.s)
       IN  /\ attrs' = a2
           /\ IF load
              THEN /\ Len(listeners) < MaxLoads
                   /\ course' = c
                   /\ listeners' = Append(listeners, c)
                   /\ fetching' = [fetching EXCEPT ![c] = @ + 1]
              ELSE UNCHANGED <<course, listeners, fetching>>
    /\ UNCHANGED <<seatTypes, products, resolved, fillCalls, saves, sent,
                   lastSave, errors>>

\* fillFromCourse: the seat types of the course, and the first as seat_type.
SeatTypesOf(prods) ==
    [i \in 1..Len(seats(prods)) |->
        [value |-> seats(prods)[i].certificate_type,
         label |-> seats(prods)[i].label]]

fillFromCourse(a, prods) ==
    [seatTypes |-> SeatTypesOf(prods),
     attrs |-> [a EXCEPT !["seat_type"] = SeatTypesOf(prods)[1].value]]

\* The number of listenTo registrations the model holds on course c.
Subscriptions(c) == Cardinality({i \in 1..Len(listeners) : listeners[i] = c})

\* A fetch of course c completes: the Course takes the fetched seats, and
\* when that changed it (always, the first time) its change event calls
\* fillFromCourse once per listenTo registration on it.
FetchResolve(c, changed) ==
    /\ fetching[c] > 0
    /\ changed \/ products[c] = Catalog(c)
    /\ fetching' = [fetching EXCEPT ![c] = @ - 1]
    /\ products' = [products EXCEPT ![c] = Catalog(c)]
    /\ resolved' = Append(resolved, c)
    /\ IF changed /\ Subscriptions(c) > 0
       THEN /\ seatTypes' = fillFromCourse(attrs, Catalog(c)).seatTypes
            /\ attrs' = fillFromCourse(attrs, Catalog(c)).attrs
            /\ fillCalls' = Subscriptions(c)
       ELSE /\ UNCHANGED <<seatTypes, attrs>>
            /\ fillCalls' = 0
    /\ UNCHANGED <<course, listeners, saves, sent, lastSave, errors>>

\* ------------------------------------------------------------------- save

\* products.findWhere({certificate_type: seat_type}): the position of the
\* first such seat, 0 when there is none (findWhere gives undefined).
findWhere(prods, st) ==
    LET m == {i \in 1..Len(prods) : prods[i].certificate_type = st}
    IN  IF m = {} THEN 0 ELSE CHOOSE i \in m : \A j \in m : i <= j

\* _.map(seat.get('stockrecords'), _.compose(parseInt, _.property('id')))
stockRecordIds(seat) ==
    [i \in 1..Len(seat.stockrecords) |-> ParseInt(Str(seat.stockrecords[i]))]

\* data.quantity: parseInt(quantity), replaced by 1 when voucher_type is
\* not 'Single use' or _.isEmpty(quantity).
PayloadQuantity(a) ==
    IF a["voucher_type"] # SingleUse \/ IsEmpty(a["quantity"])
    THEN Num(10)
    ELSE ParseInt(a["quantity"])

\* A switch whose two cases both take the price and the benefit fields from
\* the request.
PayloadBenefitFromRequest(a) ==
    IF a["code_type"] \in {Enrollment, Discount}
    THEN [keys |-> {"price", "benefit_type", "benefit_value"},
          price |-> ParseFloat(a["price"]),
          benefit_type |-> a["benefit_type"],
          benefit_value |-> ParseFloat(a["benefit_value"])]
    ELSE [keys |-> {}, price |-> Undef, benefit_type |-> Undef,
          benefit_value |-> Undef]

\* The switch on code_type: the price and benefit fields it adds to data.
\* No case matches any other code_type, and nothing is added.
PayloadBenefit(a) ==
    CASE a["code_type"] = Enrollment ->
            [keys |-> {"price", "benefit_type", "benefit_value"},
             price |-> ParseFloat(a["price"]),
             benefit_type |-> Percentage,
             benefit_value |-> Num(1000)]
      [] a["code_type"] = Discount ->
            [keys |-> {"price", "benefit_type", "benefit_value"},
             price |-> Num(0),
             benefit_type |-> a["benefit_type"],
             benefit_value |-> ParseFloat(a["benefit_value"])]
      [] OTHER ->
            [keys |-> {}, price |-> Undef, benefit_type |-> Undef,
             benefit_value |-> Undef]

\* The object `data` that save builds.
SaveData(a, stock) ==
    LET b == PayloadBenefit(a)
    IN  [keys |-> {"title", "client_username", "start_date", "end_date",
                   "stock_record_ids", "code", "voucher_type", "quantity"}
                  \cup b.keys,
         val |-> [f \in ScalarFields |->
                    CASE f = "code" ->
                            IF Truthy(a["code"]) THEN a["code"] ELSE Str(<<>>)
                      [] f = "quantity" -> PayloadQuantity(a)
                      [] f = "price" -> b.price
                      [] f = "benefit_type" -> b.benefit_type
                      [] f = "benefit_value" -> b.benefit_value
                      [] OTHER -> a[f]],
         stock |-> stock]

\* JSON.stringify(data), the body of the request: a key whose value is
\* undefined is left out, and NaN is written as null.
Stringify(d) ==
    [keys |-> {f \in d.keys :
                  f = "stock_record_ids" \/ d.val[f].t # "undefined"},
     val |-> [f \in ScalarFields |->
                IF d.val[f].t = "NaN" THEN Null ELSE d.val[f]],
     stock |-> [i \in 1..Len(d.stock) |->
                IF d.stock[i].t = "NaN" THEN Null ELSE d.stock[i]]]

\* A save that goes on without a seat.
SaveOutcomeUnguarded(found, valid) == IF valid THEN "sent" ELSE "invalid"

\* How a call of save ends: seat.get throws a TypeError when findWhere
\* found no seat (or there is no course); otherwise Backbone's save
\* validates the model and returns false when it is invalid, and else
\* sends the POST.
SaveOutcome(found, valid) ==
    IF ~found THEN "TypeError" ELSE IF valid THEN "sent" ELSE "invalid"

Save ==
    /\ saves < MaxSaves
    /\ saves' = saves + 1
    /\ LET prods == IF course = NoCourse THEN <<>> ELSE products[course]
           i == findWhere(prods, attrs["seat_type"])
           stock == IF i = 0 THEN <<>> ELSE stockRecordIds(prods[i])
           data == SaveData(attrs, stock)
           outcome == SaveOutcome(i # 0, ModelValid(attrs))
       IN  /\ lastSave' =
                IF outcome = "TypeError"
                THEN [outcome |-> outcome, course |-> course,
                      attrs |-> attrs, data |-> NoData]
                ELSE [outcome |-> outcome, course |-> course,
                      attrs |-> attrs, data |-> Stringify(data)]
           /\ sent' = IF outcome = "sent" THEN sent + 1 ELSE sent
           /\ errors' =
                IF outcome = "TypeError" THEN errors
                ELSE [ran |-> TRUE, attrs |-> attrs, msg |-> validation(attrs)]
    /\ UNCHANGED <<attrs, course, seatTypes, products, listeners, fetching,
                   resolved, fillCalls>>

\* validate(): the validation mixin checks every validated attribute.
Validate ==
    /\ errors' = [ran |-> TRUE, attrs |-> attrs, msg |-> validation(attrs)]
    /\ UNCHANGED <<attrs, course, seatTypes, products, listeners, fetching,
                   resolved, fillCalls, saves, sent, lastSave>>

\* ----------------------------------------------------- inputs and specs

Date0 == Str(<<"1", "2", "/", "3", "1", "/", "2", "0", "2", "3">>)
Date1 == Str(<<"0", "1", "/", "0", "1", "/", "2", "0", "2", "4">>)
Date2 == Str(<<"0", "2", "/", "0", "1", "/", "2", "0", "2", "4">>)
DateBadMonth == Str(<<"1", "3", "/", "0", "1", "/", "2", "0", "2", "4">>)
DateGarbage == Str(<<"soon">>)

CourseIdInputs == {Str(CourseA), Str(CourseB), Str(CourseBad)}
DateInputs == {Str(<<>>), DateGarbage, DateBadMonth, Date0, Date1, Date2}
VoucherTypeInputs == {SingleUse, MultiUse}
QuantityInputs == {Str(<<>>), Str(<<"5">>), Str(<<"1", "2">>), Num(50)}
CodeTypeInputs == {Enrollment, Discount}
PriceInputs == {Str(<<"1", "0", ".", "5">>), Str(<<"free">>)}
BenefitTypeInputs == {Percentage, Absolute}
BenefitValueInputs == {Str(<<"2", "5">>), Str(<<"2", ".", "5">>)}
CodeInputs == {Str(<<"SPRING">>)}

\* What the form can give each attribute.
Inputs(k) ==
    CASE k = "course_id" -> CourseIdInputs
      [] k \in {"start_date", "end_date"} -> DateInputs
      [] k = "voucher_type" -> VoucherTypeInputs
      [] k = "quantity" -> QuantityInputs
      [] k = "code_type" -> CodeTypeInputs
      [] k = "price" -> PriceInputs
      [] k = "benefit_type" -> BenefitTypeInputs
      [] k = "benefit_value" -> BenefitValueInputs
      [] k = "code" -> CodeInputs

Edit(names) == \E k \in names : \E v \in Inputs(k) : SetAttr(k, v)

Fetched == \E c \in Courses : \E changed \in BOOLEAN : FetchResolve(c, changed)

\* Each specification edits the attributes its claims are about and leaves
\* the others as the model was constructed.

\* The course lookup: course_id changes, fetches complete, save is called.
Next ==
    \/ Edit({"course_id"})
    \/ Fetched
    \/ Save

Spec == Init /\ [][Next]_vars

\* The quantity: one course is looked up, voucher_type and quantity are
\* edited, save is called.
NextVoucher ==
    \/ SetAttr("course_id", Str(CourseA))
    \/ Fetched
    \/ Edit({"voucher_type", "quantity"})
    \/ Save

SpecVoucher == Init /\ [][NextVoucher]_vars

\* The payload: the model is constructed with the attributes that do not
\* depend on code_type, one course is looked up, the code type and its
\* fields are edited, save is called.
InitPayload ==
    Constructed([title |-> Str(<<"Spring sale">>),
                 client_username |-> Str(<<"client">>),
                 start_date |-> Date1,
                 end_date |-> Date2,
                 voucher_type |-> SingleUse])

NextPayload ==
    \/ SetAttr("course_id", Str(CourseA))
    \/ Fetched
    \/ Edit({"code_type", "price", "benefit_type", "benefit_value", "code"})
    \/ Save

SpecPayload == InitPayload /\ [][NextPayload]_vars

\* The dates: start_date and end_date are edited, the model is validated.
NextDates ==
    \/ Edit({"start_date", "end_date"})
    \/ Validate

SpecDates == Init /\ [][NextDates]_vars

\* ----------------------------------------------------------------- claims

NoFetchOutstanding == \A c \in Courses : fetching[c] = 0

\* C1: when course_id was changed to a valid id A and then to a valid id B
\* before A's fetch resolved, then once no fetch is outstanding, whatever
\* the order the fetches resolved in, `course` references the course whose
\* id is the present course_id, B.
C1_LastWriterWins ==
    (NoFetchOutstanding /\ attrs["course_id"] \in {Str(CourseA), Str(CourseB)})
        => course = attrs["course_id"].s

\* A was looked up, then B, and B's fetch resolved before A's.
C1_Witness ==
    /\ listeners = <<CourseA, CourseB>>
    /\ resolved = <<CourseB, CourseA>>
    /\ attrs["course_id"] = Str(CourseB)
    /\ course = CourseB

\* C2: the request holds at most one subscription to a course's change
\* event, and one change event calls fillFromCourse at most once.
C2_SingleSubscription == Len(listeners) <= 1 /\ fillCalls <= 1

\* C9: once a course was looked up and no fetch is outstanding, seatTypes
\* is the (certificate_type, display name) list of the seats of the course
\* that `course` references, and seat_type is its first seat's type.
C9_SeatTypesFollowCourse ==
    (course # NoCourse /\ NoFetchOutstanding)
        => /\ seatTypes =
                [i \in 1..Len(Catalog(course)) |->
                    [value |-> Catalog(course)[i].certificate_type,
                     label |-> Catalog(course)[i].label]]
           /\ attrs["seat_type"] = Catalog(course)[1].certificate_type

HasSeat(c, st) ==
    /\ c # NoCourse
    /\ \E i \in 1..Len(products[c]) : products[c][i].certificate_type = st

\* C7: a call of save made while the course has no seat of the request's
\* seat_type ends in the lookup error, sends nothing and leaves the
\* attributes as they were.
C7_SaveLookupError ==
    [][(saves' # saves /\ ~HasSeat(course, attrs["seat_type"]))
          => /\ lastSave'.outcome = "TypeError"
             /\ sent' = sent
             /\ attrs' = attrs]_vars

\* save failed on course B while B's fetch was in flight, with the seat
\* type that course A had set.
C7_Witness ==
    /\ lastSave.outcome = "TypeError"
    /\ lastSave.course = CourseB
    /\ lastSave.attrs["seat_type"] = Honor
    /\ products[CourseB] = <<>>
    /\ fetching[CourseB] > 0
    /\ sent = 0

\* The call of save got as far as building its payload, which lastSave
\* holds as the JSON body of the request.
Built == lastSave.outcome \in {"invalid", "sent"}

IsOne(v) == v = Num(10)

QuantityUnset(v) == v.t \in {"undefined", "null"} \/ v = Str(<<>>)

\* The integer the quantity stands for, for the quantities the form gives.
IntegerValue(v) ==
    CASE v = Str(<<"5">>) -> Num(50)
      [] v = Num(50) -> Num(50)
      [] v = Str(<<"1", "2">>) -> Num(120)
      [] v = Num(10) -> Num(10)

\* C4: the payload's quantity is 1 when voucher_type is not 'Single use' or
\* the request's quantity is empty, and else the integer value of the
\* request's quantity.
C4_PayloadQuantity ==
    Built =>
        lastSave.data.val["quantity"] =
            IF lastSave.attrs["voucher_type"] # SingleUse
                  \/ QuantityUnset(lastSave.attrs["quantity"])
            THEN Num(10)
            ELSE IntegerValue(lastSave.attrs["quantity"])

\* The number a price or a benefit value stands for, for the texts the
\* form gives; one that is unset or holds no number stands for NaN, which
\* the JSON body carries as null.
NumericValue(v) ==
    CASE v = Str(<<"1", "0", ".", "5">>) -> Num(105)
      [] v = Str(<<"2", "5">>) -> Num(250)
      [] v = Str(<<"2", ".", "5">>) -> Num(25)
      [] OTHER -> Null

\* C5: the payload's price and benefit fields are fixed by code_type: for
\* enrollment the numeric price, "Percentage" and 100; for discount price
\* 0, the request's benefit_type and its numeric benefit_value.
C5_PriceAndBenefitByCodeType ==
    Built =>
        LET a == lastSave.attrs
            d == lastSave.data.val
        IN  /\ a["code_type"] = Enrollment
                => /\ d["price"] = NumericValue(a["price"])
                   /\ d["benefit_type"] = Percentage
                   /\ d["benefit_value"] = Num(1000)
            /\ a["code_type"] = Discount
                => /\ d["price"] = Num(0)
                   /\ d["benefit_type"] = a["benefit_type"]
                   /\ d["benefit_value"] = NumericValue(a["benefit_value"])

\* An enrollment payload was sent with price 10.5 and a 100 percent benefit
\* while the request held the benefit type Absolute and the value 25.
C5_Witness ==
    /\ lastSave.outcome = "sent"
    /\ lastSave.attrs["code_type"] = Enrollment
    /\ lastSave.attrs["benefit_type"] = Absolute
    /\ lastSave.attrs["benefit_value"] = Str(<<"2", "5">>)
    /\ lastSave.data.val["price"] = Num(105)
    /\ lastSave.data.val["benefit_type"] = Percentage
    /\ lastSave.data.val["benefit_value"] = Num(1000)

\* C8: every payload save submits holds all eleven fields, and its code is
\* the empty text when the request's code is unset.
C8_PayloadComplete ==
    lastSave.outcome = "sent" =>
        /\ lastSave.data.keys = PayloadFields
        /\ lastSave.attrs["code"] = Undef => lastSave.data.val["code"] = Str(<<>>)

\* The dates of the inputs that parse, and their order.
ParsedDates == {Date0, Date1, Date2}

StrictlyBefore(x, y) ==
    \/ x = Date0 /\ y \in {Date1, Date2}
    \/ x = Date1 /\ y = Date2

\* C6: when start_date and end_date both parse, validation reports no
\* error on either when start_date is strictly before end_date, and else
\* the out-of-order error on both.
C6_DateOrder ==
    (errors.ran /\ errors.attrs["start_date"] \in ParsedDates
                /\ errors.attrs["end_date"] \in ParsedDates)
        => IF StrictlyBefore(errors.attrs["start_date"], errors.attrs["end_date"])
           THEN /\ errors.msg["start_date"] = NoError
                /\ errors.msg["end_date"] = NoError
           ELSE /\ errors.msg["start_date"] = "Must occur before end date"
                /\ errors.msg["end_date"] = "Must occur after start date"

\* Validation ran on equal dates and reported the order error on both.
C6_Witness ==
    /\ errors.ran
    /\ errors.attrs["start_date"] = Date1
    /\ errors.attrs["end_date"] = Date1
    /\ errors.msg["start_date"] = "Must occur before end date"
    /\ errors.msg["end_date"] = "Must occur after start date"

\* The first failing rule of a date field, the order rule applying only
\* when the other date is set and parses.
DateError(val, other, before, missing, invalid, order) ==
    IF val = Undef \/ val = Str(<<>>) THEN missing
    ELSE IF val \notin ParsedDates THEN invalid
    ELSE IF other \in ParsedDates
            /\ ~(IF before THEN StrictlyBefore(val, other)
                 ELSE StrictlyBefore(other, val))
         THEN order
    ELSE NoError

\* C10: for each date field the first failing rule wins in the order
\* missing, unparsable, out-of-order, and the out-of-order rule is applied
\* only when the other date field is set and parses.
C10_OrderRuleNeedsOtherDate ==
    errors.ran =>
        /\ errors.msg["start_date"] =
             DateError(errors.attrs["start_date"], errors.attrs["end_date"], TRUE,
                       "Start date is required", "Start date is invalid",
                       "Must occur before end date")
        /\ errors.msg["end_date"] =
             DateError(errors.attrs["end_date"], errors.attrs["start_date"], FALSE,
                       "End date is required", "End date is invalid",
                       "Must occur after start date")

====
